---- MODULE Spec2Model ----
(***************************************************************************)
(* The Meteor methods of imports/api/sentences.js over the "sentences"     *)
(* collection.  A state is the collection (docs), the inserts in flight    *)
(* (pend), and the result of the method call that has just run and is on   *)
(* its way back to the caller (call), with the collection as that call     *)
(* found it (prev).                                                        *)
(***************************************************************************)
EXTENDS Integers, Sequences, FiniteSets, TLC

VARIABLES
    docs,      \* Sentences: the set of stored documents
    nextId,    \* how many documents were ever inserted, plus one
    nPush,     \* how many $push updates were applied
    pend,      \* per caller: the insert between its findOne and its insert
    call,      \* the method result in flight: method, inputs, error
    prev,      \* docs as the call in flight found them
    insLog,    \* the successful inserts, in the order they wrote
    rt         \* a span annotation just added: its inputs and the array before

vars == <<docs, nextId, nPush, pend, call, prev, insLog, rt>>

\* At most this many documents are ever inserted.
MaxInserts == 2
\* At most this many $push updates are ever applied.
MaxPush == 2

(***************************************************************************)
(* JavaScript values that reach check(): a string or a number.             *)
(***************************************************************************)
Str(s) == [t |-> "string", s |-> s, n |-> 0]
Num(n) == [t |-> "number", s |-> "", n |-> n]

\* check(v, String)
IsString(v) == v.t = "string"
\* check(v, Number)
IsNumber(v) == v.t = "number"

\* this.userId of a caller that is not logged in
NoUser == "null"
Users == {"alice"}
Callers == Users \cup {NoUser}
\* The client connections logged in; calls of one connection run in turn
Conns == {"c1", "c2"}
\* this.userId of the calls of a connection
UserOf(conn) == CHOOSE u \in Users : TRUE

\* Meteor.users.findOne(userId).username
UsernameOf(userId) == "@" \o userId

\* The _id the store gives the k-th document (Random.id(): never reused).
IdOf(k) == "id" \o ToString(k)

(***************************************************************************)
(* Inputs                                                                  *)
(***************************************************************************)
SpanNP01 == [type |-> Str("NP"), begin |-> Num(0), end |-> Num(1)]
SpanNP11 == [type |-> Str("NP"), begin |-> Num(1), end |-> Num(1)]
\* Well-typed (type, begin, end)
GoodSpans == {SpanNP01, SpanNP11}
\* begin or end is not a number
BadSpans == {[type |-> Str("NP"), begin |-> Str("0"), end |-> Num(1)],
             [type |-> Str("NP"), begin |-> Num(0), end |-> Str("1")]}
SpanArgs == GoodSpans \cup BadSpans

AnnPOS == [type |-> Str("POS"), value |-> [begin |-> Num(0), end |-> Num(1)]]
GoodAnns == {AnnPOS}
BadAnns == {[type |-> Str("POS"), value |-> [begin |-> Str("0"), end |-> Num(1)]],
            [type |-> Str("POS"), value |-> [begin |-> Num(0), end |-> Str("1")]]}
AnnArgs == GoodAnns \cup BadAnns

GoodSentences ==
    {[sentence |-> Str("s"), annotations |-> <<AnnPOS>>,
      spanAnnotations |-> <<>>, zScore |-> Num(0)]}
BadSentences ==
    {[sentence |-> Str("s"), annotations |-> <<>>,
      spanAnnotations |-> <<>>, zScore |-> Str("0")],
     [sentence |-> Str("s"), annotations |-> <<>>,
      spanAnnotations |-> <<CHOOSE b \in BadSpans : TRUE>>, zScore |-> Num(0)]}
SentenceArgs == GoodSentences \cup BadSentences

\* sentenceId arguments: the ids the store may hold, and a number
IdArgs == {Str(IdOf(k)) : k \in 1..MaxInserts} \cup {Str("nosuch"), Num(1)}

(***************************************************************************)
(* checkSentence                                                           *)
(***************************************************************************)
checkSentence(s) ==
    /\ IsString(s.sentence)
    /\ \A i \in DOMAIN s.annotations :
          /\ IsString(s.annotations[i].type)
          /\ IsNumber(s.annotations[i].value.begin)
          /\ IsNumber(s.annotations[i].value.end)
    /\ \A i \in DOMAIN s.spanAnnotations :
          /\ IsString(s.spanAnnotations[i].type)
          /\ IsNumber(s.spanAnnotations[i].begin)
          /\ IsNumber(s.spanAnnotations[i].end)
    /\ IsNumber(s.zScore)

(***************************************************************************)
(* Store primitives                                                        *)
(***************************************************************************)
\* Sentences.findOne({}, {sort: {readableId: -1}})
LastDocs(D) == {d \in D : \A e \in D : e.readableId <= d.readableId}

\* Mutant: the document read is ignored and the count restarts at 0
CurrentId_Zero(D) == 0

\* (lastDoc && lastDoc.readableId) || 0
CurrentId(D) ==
    IF D = {} THEN 0 ELSE (CHOOSE d \in LastDocs(D) : TRUE).readableId

\* Mutant: readableId is currentId, not currentId + 1
NewDoc_NoIncrement(sentence, userId, currentId, k) ==
    [_id |-> IdOf(k),
     sentence |-> sentence.sentence,
     annotations |-> sentence.annotations,
     spanAnnotations |-> sentence.spanAnnotations,
     zScore |-> sentence.zScore,
     readableId |-> currentId,
     createdAt |-> k,
     owner |-> userId,
     username |-> UsernameOf(userId)]

\* The document Sentences.insert stores
NewDoc(sentence, userId, currentId, k) ==
    [_id |-> IdOf(k),
     sentence |-> sentence.sentence,
     annotations |-> sentence.annotations,
     spanAnnotations |-> sentence.spanAnnotations,
     zScore |-> sentence.zScore,
     readableId |-> currentId + 1,
     createdAt |-> k,
     owner |-> userId,
     username |-> UsernameOf(userId)]

\* A string selector selects the document with that _id; _ids are strings.
Selects(sentenceId, d) == IsString(sentenceId) /\ d._id = sentenceId.s

\* Mutant: the selector is dropped, as in Sentences.remove({})
RemoveDoc_All(D, sentenceId) == {}

\* Sentences.remove(sentenceId)
RemoveDoc(D, sentenceId) == {d \in D : ~Selects(sentenceId, d)}

\* $push: {spanAnnotations: span}
PushSpan(D, sentenceId, span) ==
    {IF Selects(sentenceId, d)
        THEN [d EXCEPT !.spanAnnotations = Append(@, span)]
        ELSE d : d \in D}

\* Mutant: the $pull condition names the type alone
SpanMatches_TypeOnly(e, span) == e.type = span.type

\* An array entry matches the $pull condition {type, begin, end}
SpanMatches(e, span) ==
    e.type = span.type /\ e.begin = span.begin /\ e.end = span.end

\* Mutant: only the first matching entry is removed
PullFrom_First(arr, span) ==
    LET hits == {i \in DOMAIN arr : SpanMatches(arr[i], span)}
        first == CHOOSE i \in hits : \A j \in hits : i <= j
    IN  IF hits = {} THEN arr
        ELSE SubSeq(arr, 1, first - 1) \o SubSeq(arr, first + 1, Len(arr))

\* $pull keeps, in order, the entries that do not match
PullFrom(arr, span) ==
    LET Keep(e) == ~SpanMatches(e, span) IN SelectSeq(arr, Keep)

\* $pull: {spanAnnotations: {type, begin, end}}
PullSpan(D, sentenceId, span) ==
    {IF Selects(sentenceId, d)
        THEN [d EXCEPT !.spanAnnotations = PullFrom(@, span)]
        ELSE d : d \in D}

\* An array entry matches the $pull condition {type, value}
AnnMatches(e, ann) == e.type = ann.type /\ e.value = ann.value

\* $pull: {annotations: {type, value}}
PullAnn(D, sentenceId, ann) ==
    {IF Selects(sentenceId, d)
        THEN [d EXCEPT !.annotations =
                 LET Keep(e) == ~AnnMatches(e, ann) IN SelectSeq(@, Keep)]
        ELSE d : d \in D}

(***************************************************************************)
(* The record of a call                                                    *)
(***************************************************************************)
NoArg == [none |-> TRUE]
Returned(op, userId, sentenceId, arg, error) ==
    [op |-> op, userId |-> userId, sentenceId |-> sentenceId,
     arg |-> arg, error |-> error]
NoCall == Returned("none", NoUser, Str(""), NoArg, "none")

\* No result is in flight: the next method call may run
Idle == call = NoCall

Init ==
    /\ docs = {}
    /\ nextId = 1
    /\ nPush = 0
    /\ pend = [c \in Conns |-> NoArg]
    /\ call = NoCall
    /\ prev = {}
    /\ insLog = <<>>
    /\ rt = NoArg

(***************************************************************************)
(* sentences.insert                                                        *)
(***************************************************************************)
\* Mutant: the login is tested before the shape
InsertError_AuthFirst(userId, sentence) ==
    IF userId = NoUser THEN "not-authorized"
    ELSE IF ~checkSentence(sentence) THEN "Match.Error"
    ELSE "none"

\* The error the method throws before it reads the collection
InsertError(userId, sentence) ==
    IF ~checkSentence(sentence) THEN "Match.Error"
    ELSE IF userId = NoUser THEN "not-authorized"
    ELSE "none"

InsertFails(userId, sentence) ==
    /\ Idle
    /\ InsertError(userId, sentence) # "none"
    /\ call' = Returned("sentences.insert", userId, Str(""), sentence,
                        InsertError(userId, sentence))
    /\ prev' = docs
    /\ rt' = NoArg
    /\ UNCHANGED <<docs, nextId, nPush, pend, insLog>>

\* How many documents were inserted or removed so far
Ver == (nextId - 1) + ((nextId - 1) - Cardinality(docs))

\* What Sentences.insert of the method writes, given what findOne returned
InsertWrites(userId, sentence, currentId, readVer) ==
    /\ Idle
    /\ nextId <= MaxInserts
    /\ docs' = docs \cup {NewDoc(sentence, userId, currentId, nextId)}
    /\ nextId' = nextId + 1
    /\ insLog' = Append(insLog,
                        [_id |-> NewDoc(sentence, userId, currentId, nextId)._id,
                         readableId |->
                            NewDoc(sentence, userId, currentId, nextId).readableId,
                         owner |-> userId, readVer |-> readVer,
                         follows |-> insLog # <<>> /\
                            \E d \in docs : d._id = insLog[Len(insLog)]._id])
    /\ call' = Returned("sentences.insert", userId, Str(""), sentence, "none")
    /\ prev' = docs
    /\ rt' = NoArg
    /\ UNCHANGED nPush

\* The whole method, with no other call between its findOne and its insert
Insert(userId, sentence) ==
    /\ InsertError(userId, sentence) = "none"
    /\ InsertWrites(userId, sentence, CurrentId(docs), Ver)
    /\ UNCHANGED pend

(***************************************************************************)
(* sentences.remove                                                        *)
(***************************************************************************)
Remove(sentenceId) ==
    /\ Idle
    /\ docs' = RemoveDoc(docs, sentenceId)
    /\ call' = Returned("sentences.remove", NoUser, sentenceId, NoArg, "none")
    /\ prev' = docs
    /\ rt' = NoArg
    /\ UNCHANGED <<nextId, nPush, pend, insLog>>

(***************************************************************************)
(* sentences.addAnnotation                                                 *)
(***************************************************************************)
\* The names the module binds: its imports and its declarations
ModuleBindings ==
    {"Meteor", "HTTP", "Mongo", "check", "TSV", "Sentences", "checkSentence"}

\* Evaluating an identifier the module does not bind throws ReferenceError
RefError(name) == IF name \in ModuleBindings THEN "none" ELSE "ReferenceError"

\* The method evaluates Sentence.update(...): Sentence is not bound, so the
\* call throws before any update is sent to the store.
AddAnnotation(sentenceId, ann) ==
    /\ Idle
    /\ RefError("Sentence") # "none"
    /\ call' = Returned("sentences.addAnnotation", NoUser, sentenceId, ann,
                        RefError("Sentence"))
    /\ prev' = docs
    /\ rt' = NoArg
    /\ UNCHANGED <<docs, nextId, nPush, pend, insLog>>

(***************************************************************************)
(* sentences.removeAnnotation                                              *)
(***************************************************************************)
RemoveAnnotation(sentenceId, ann) ==
    /\ Idle
    /\ docs' = PullAnn(docs, sentenceId, ann)
    /\ call' = Returned("sentences.removeAnnotation", NoUser, sentenceId, ann,
                        "none")
    /\ prev' = docs
    /\ rt' = NoArg
    /\ UNCHANGED <<nextId, nPush, pend, insLog>>

(***************************************************************************)
(* sentences.addSpanAnnotation, sentences.removeSpanAnnotation             *)
(***************************************************************************)
\* Mutant: begin and end are not checked
SpanError_NoNumberCheck(sentenceId, span) ==
    IF IsString(sentenceId) /\ IsString(span.type)
    THEN "none" ELSE "Match.Error"

\* check(sentenceId, String); check(begin, Number); check(end, Number);
\* check(type, String)
SpanError(sentenceId, span) ==
    IF /\ IsString(sentenceId)
       /\ IsNumber(span.begin)
       /\ IsNumber(span.end)
       /\ IsString(span.type)
    THEN "none" ELSE "Match.Error"

AddSpanAnnotation(sentenceId, span) ==
    LET error == SpanError(sentenceId, span)
        hit == {d \in docs : Selects(sentenceId, d)}
    IN  /\ Idle
        /\ call' = Returned("sentences.addSpanAnnotation", NoUser, sentenceId,
                            span, error)
        /\ prev' = docs
        /\ IF error = "none" /\ hit # {}
              THEN /\ nPush < MaxPush
                   /\ docs' = PushSpan(docs, sentenceId, span)
                   /\ nPush' = nPush + 1
                   /\ rt' = [sentenceId |-> sentenceId, span |-> span,
                             before |-> (CHOOSE d \in hit : TRUE).spanAnnotations,
                             stage |-> "added"]
              ELSE /\ UNCHANGED <<docs, nPush>>
                   /\ rt' = NoArg
        /\ UNCHANGED <<nextId, pend, insLog>>

RemoveSpanAnnotation(sentenceId, span) ==
    LET error == SpanError(sentenceId, span)
    IN  /\ Idle
        /\ call' = Returned("sentences.removeSpanAnnotation", NoUser,
                            sentenceId, span, error)
        /\ prev' = docs
        /\ docs' = IF error = "none" THEN PullSpan(docs, sentenceId, span)
                   ELSE docs
        /\ rt' = IF /\ rt # NoArg
                    /\ rt.stage = "added"
                    /\ rt.sentenceId = sentenceId
                    /\ rt.span = span
                 THEN [rt EXCEPT !.stage = "removed"]
                 ELSE NoArg
        /\ UNCHANGED <<nextId, nPush, pend, insLog>>

(***************************************************************************)
(* sentences.importFromTsv: fetches and logs, and writes nothing           *)
(***************************************************************************)
ImportFromTsv ==
    /\ Idle
    /\ call' = Returned("sentences.importFromTsv", NoUser, Str(""), NoArg,
                        "none")
    /\ prev' = docs
    /\ rt' = NoArg
    /\ UNCHANGED <<docs, nextId, nPush, pend, insLog>>

(***************************************************************************)
(* sentences.insert as the two store operations it is                      *)
(***************************************************************************)
InFlight == {c \in Conns : pend[c] # NoArg}

\* The checks, then findOne
InsertRead(conn, sentence) ==
    /\ Idle
    /\ InsertError(UserOf(conn), sentence) = "none"
    /\ pend[conn] = NoArg
    /\ nextId + Cardinality(InFlight) <= MaxInserts
    /\ pend' = [pend EXCEPT ![conn] =
                   [sentence |-> sentence, currentId |-> CurrentId(docs),
                    readVer |-> Ver]]
    /\ UNCHANGED <<docs, nextId, nPush, call, prev, insLog, rt>>

\* Mutant: the highest readableId is read again as the document is written
InsertWrite_Reread(conn) ==
    /\ pend[conn] # NoArg
    /\ InsertWrites(UserOf(conn), pend[conn].sentence, CurrentId(docs),
                    pend[conn].readVer)
    /\ pend' = [pend EXCEPT ![conn] = NoArg]

\* Sentences.insert with the currentId read earlier
InsertWrite(conn) ==
    /\ pend[conn] # NoArg
    /\ InsertWrites(UserOf(conn), pend[conn].sentence, pend[conn].currentId,
                    pend[conn].readVer)
    /\ pend' = [pend EXCEPT ![conn] = NoArg]

(***************************************************************************)
(* The result, or the error, reaches the caller                            *)
(***************************************************************************)
Respond ==
    /\ ~Idle
    /\ call' = NoCall
    /\ prev' = {}
    /\ UNCHANGED <<docs, nextId, nPush, pend, insLog, rt>>

\* Method calls that run one at a time
Next ==
    \/ \E u \in Callers, s \in SentenceArgs : InsertFails(u, s)
    \/ \E u \in Users, s \in SentenceArgs : Insert(u, s)
    \/ \E id \in IdArgs : Remove(id)
    \/ \E id \in IdArgs, a \in AnnArgs : RemoveAnnotation(id, a)
    \/ \E id \in IdArgs, a \in AnnArgs : AddAnnotation(id, a)
    \/ \E id \in IdArgs, s \in SpanArgs : AddSpanAnnotation(id, s)
    \/ \E id \in IdArgs, s \in SpanArgs : RemoveSpanAnnotation(id, s)
    \/ ImportFromTsv
    \/ Respond

Spec == Init /\ [][Next]_vars

\* Inserts of different connections interleave at their store operations,
\* with each other and with removes
NextConc ==
    \/ \E u \in Callers, s \in SentenceArgs : InsertFails(u, s)
    \/ \E c \in Conns, s \in SentenceArgs : InsertRead(c, s)
    \/ \E c \in Conns : InsertWrite(c)
    \/ \E id \in IdArgs : Remove(id)
    \/ Respond

ConcSpec == Init /\ [][NextConc]_vars

(***************************************************************************)
(* Properties                                                              *)
(***************************************************************************)
Selected(D, sentenceId) ==
    {d \in D : sentenceId.t = "string" /\ d._id = sentenceId.s}

Ran(op) == call.op = op

\* C1 as stated: an insert by a caller that is not logged in fails with
\* 'not-authorized', whatever the sentence, and leaves the collection as it was.
C1_Original ==
    (Ran("sentences.insert") /\ call.userId = NoUser)
        => (call.error = "not-authorized" /\ docs = prev)

\* C1 amended: an insert by a caller that is not logged in always fails and
\* leaves the collection as it was; the error is 'not-authorized' when the
\* sentence is well-shaped and the validation error when it is not.
C1_UnauthenticatedInsertFails ==
    (Ran("sentences.insert") /\ call.userId = NoUser)
        => /\ docs = prev
           /\ checkSentence(call.arg) => call.error = "not-authorized"
           /\ ~checkSentence(call.arg) => call.error = "Match.Error"

\* An ill-shaped sentence from a caller that is not logged in was rejected
\* while the collection held documents.
C1_Witness ==
    /\ Ran("sentences.insert")
    /\ call.userId = NoUser
    /\ ~checkSentence(call.arg)
    /\ call.error = "Match.Error"
    /\ prev # {}

\* C2 as stated: of two successful inserts by the same caller, one after the
\* other, whatever ran in between, the second document's readableId is the
\* first's plus one.
C2_Original ==
    \A i \in DOMAIN insLog :
        (i > 1 /\ insLog[i].owner = insLog[i - 1].owner)
            => insLog[i].readableId = insLog[i - 1].readableId + 1

\* C2 amended: the second readableId is the first's plus one provided the
\* document the first insert created is still in the collection when the
\* second insert runs.
C2_NextInsertIsPlusOne ==
    \A i \in DOMAIN insLog :
        (i > 1 /\ insLog[i].owner = insLog[i - 1].owner /\ insLog[i].follows)
            => insLog[i].readableId = insLog[i - 1].readableId + 1

\* Two inserts ran one after the other, the first one's document still stored.
C2_Witness ==
    /\ Len(insLog) >= 2
    /\ insLog[2].owner = insLog[1].owner
    /\ insLog[2].follows
    /\ Ran("sentences.insert")
    /\ call.error = "none"

\* C3 as stated: addSpanAnnotation and then removeSpanAnnotation with the same
\* (type, begin, end) on an existing document leave its spanAnnotations as
\* they were, whatever the array held.
C3_Original ==
    (rt # NoArg /\ rt.stage = "removed")
        => \A d \in Selected(docs, rt.sentenceId) :
              d.spanAnnotations = rt.before

\* C3 amended: the round trip restores the array provided the array held no
\* entry equal to (type, begin, end) before the two calls.
C3_RoundTripWithoutEqualEntry ==
    (/\ rt # NoArg
     /\ rt.stage = "removed"
     /\ \A i \in DOMAIN rt.before : rt.before[i] # rt.span)
        => \A d \in Selected(docs, rt.sentenceId) :
              d.spanAnnotations = rt.before

\* A span was added to and removed from an array that held other entries.
C3_Witness ==
    /\ rt # NoArg
    /\ rt.stage = "removed"
    /\ rt.before # <<>>
    /\ \A i \in DOMAIN rt.before : rt.before[i] # rt.span
    /\ Selected(docs, rt.sentenceId) # {}

SpanOps == {"sentences.addSpanAnnotation", "sentences.removeSpanAnnotation"}
AnnOps == {"sentences.addAnnotation", "sentences.removeAnnotation"}
BadSpanCall ==
    /\ call.op \in SpanOps
    /\ ~IsNumber(call.arg.begin) \/ ~IsNumber(call.arg.end)
BadAnnCall ==
    /\ call.op \in AnnOps
    /\ ~IsNumber(call.arg.value.begin) \/ ~IsNumber(call.arg.value.end)

\* C4 as stated: each of the four annotation methods rejects a begin or end
\* that is not a number with the validation error, and changes no document.
C4_Original ==
    (BadSpanCall \/ BadAnnCall)
        => (call.error = "Match.Error" /\ docs = prev)

\* C4 amended: addSpanAnnotation and removeSpanAnnotation reject a begin or
\* end that is not a number with the validation error and change no document;
\* addAnnotation and removeAnnotation do not check their value and raise no
\* validation error for it.
C4_MalformedSpanRejected ==
    /\ BadSpanCall => (call.error = "Match.Error" /\ docs = prev)
    /\ BadAnnCall => call.error # "Match.Error"

\* addSpanAnnotation on a stored document was rejected for its begin or end.
C4_Witness ==
    /\ BadSpanCall
    /\ Ran("sentences.addSpanAnnotation")
    /\ Selected(prev, call.sentenceId) # {}
    /\ call.error = "Match.Error"

\* C5: remove with an id that matches no document raises no error and leaves
\* the collection as it was; with the id of a document it removes that
\* document and no other.
C5_RemoveExactlyTheDocument ==
    Ran("sentences.remove")
        => /\ call.error = "none"
           /\ Cardinality(Selected(prev, call.sentenceId)) <= 1
           /\ docs = prev \ Selected(prev, call.sentenceId)
           /\ Selected(prev, call.sentenceId) = {} => docs = prev

\* remove ran with an id that matches none of the stored documents.
C5_Witness ==
    /\ Ran("sentences.remove")
    /\ Selected(prev, call.sentenceId) = {}
    /\ prev # {}
    /\ call.error = "none"

\* C6 as stated: addAnnotation on an existing document completes without
\* error and appends {type, value} at the end of its annotations, leaving
\* everything else as it was.
C6_Claim ==
    (Ran("sentences.addAnnotation") /\ Selected(prev, call.sentenceId) # {})
        => /\ call.error = "none"
           /\ docs = {IF d \in Selected(prev, call.sentenceId)
                         THEN [d EXCEPT !.annotations = Append(@, call.arg)]
                         ELSE d : d \in prev}

\* C7 as stated: over inserts and removes that do not overlap, no insert
\* assigns a readableId less than or equal to one an earlier insert assigned.
C7_Original ==
    \A i, j \in DOMAIN insLog :
        i < j => insLog[i].readableId < insLog[j].readableId

\* C7 amended: every insert assigns a readableId greater than the readableId
\* of every document that is in the collection when it runs; a readableId
\* whose document was removed may be assigned again.
C7_AboveEveryStoredId ==
    (Ran("sentences.insert") /\ call.error = "none")
        => /\ Cardinality(docs \ prev) = 1
           /\ prev \subseteq docs
           /\ \A n \in docs \ prev : \A d \in prev :
                 n.readableId > d.readableId

\* An insert ran on a collection that held a document.
C7_Witness ==
    /\ Ran("sentences.insert")
    /\ call.error = "none"
    /\ prev # {}
    /\ Len(insLog) >= 2

\* C8: two inserts that both read the highest readableId before either
\* writes, from the same collection, store two documents with the same
\* readableId.
C8_RacingInsertsShareId ==
    \A i, j \in DOMAIN insLog :
        (i # j /\ insLog[i].readVer = insLog[j].readVer)
            => insLog[i].readableId = insLog[j].readableId

\* Two stored documents that were written from the same read share a readableId.
C8_Witness ==
    \E d, e \in docs :
        /\ d._id # e._id
        /\ d.readableId = e.readableId
        /\ \E i, j \in DOMAIN insLog :
              /\ insLog[i]._id = d._id
              /\ insLog[j]._id = e._id
              /\ insLog[i].readVer = insLog[j].readVer

RECURSIVE Without(_, _)
\* arr without its entries equal to x, the others in their order
Without(arr, x) ==
    IF arr = <<>> THEN <<>>
    ELSE IF Head(arr) = x THEN Without(Tail(arr), x)
    ELSE <<Head(arr)>> \o Without(Tail(arr), x)

WellTypedSpanCall ==
    /\ IsString(call.sentenceId)
    /\ IsString(call.arg.type)
    /\ IsNumber(call.arg.begin)
    /\ IsNumber(call.arg.end)

\* C9: a well-typed removeSpanAnnotation raises no error, removes from the
\* document's spanAnnotations every entry equal to (type, begin, end), keeps
\* the other entries in order, and changes nothing else; with no matching
\* entry or no such document the collection is as it was.
C9_RemoveSpanFrame ==
    (Ran("sentences.removeSpanAnnotation") /\ WellTypedSpanCall)
        => /\ call.error = "none"
           /\ docs = {IF d \in Selected(prev, call.sentenceId)
                         THEN [d EXCEPT !.spanAnnotations =
                                  Without(@, call.arg)]
                         ELSE d : d \in prev}
           /\ (\A d \in Selected(prev, call.sentenceId) :
                  \A i \in DOMAIN d.spanAnnotations :
                      d.spanAnnotations[i] # call.arg)
                 => docs = prev

\* removeSpanAnnotation removed entries of an array and kept others.
C9_Witness ==
    /\ Ran("sentences.removeSpanAnnotation")
    /\ WellTypedSpanCall
    /\ \E d \in Selected(prev, call.sentenceId) :
          /\ \E i \in DOMAIN d.spanAnnotations : d.spanAnnotations[i] = call.arg
          /\ \E i \in DOMAIN d.spanAnnotations : d.spanAnnotations[i] # call.arg
    /\ docs # prev

\* C10: with method calls running one at a time from an empty collection, any
\* two documents of the collection have different readableIds, and every
\* readableId is an integer that is at least 1.
C10_ReadableIdsDistinct ==
    /\ \A d, e \in docs : d._id # e._id => d.readableId # e.readableId
    /\ \A d \in docs : d.readableId \in Nat /\ d.readableId >= 1

\* Two documents are stored, one with a span annotation.
C10_Witness ==
    /\ Cardinality(docs) >= 2
    /\ \E d \in docs : d.spanAnnotations # <<>>
====
